---- MODULE Spec2Model ----
(***************************************************************************)
(* atroctl deploy: the blue/green deployment run (slot resolution, then    *)
(* begin, secrets, function, statics, activate) and the watch loop that    *)
(* re-invokes it on filesystem write events.                               *)
(*                                                                         *)
(* Strings the code takes apart (environment names, file paths) are        *)
(* sequences of tokens; "ATROCITY_", "/" and "." are tokens of their own.  *)
(*                                                                         *)
(* Spec is the whole command with its watch loop. SpecRun is one run of    *)
(* the command over the layouts of the static directory and the            *)
(* credentials. SpecFlags is the resolution of the settings from the       *)
(* command line and the environment.                                       *)
(***************************************************************************)
EXTENDS Integers, Sequences, FiniteSets, TLC

VARIABLES
    strategy,     \* package variable strategy (after flag/env resolution)
    watch,        \* package variable watch (--watch)
    staticDir,    \* package variable staticDir, a token sequence; <<>> is ""
    environ,      \* os.Environ(): sequence of [name, value]
    fsTree,       \* what filepath.Walk(staticDir, ...) visits, in its order
    apiKey,       \* package variable apiKey
    apiSecretKey, \* package variable apiSecretKey
    funcDir,      \* package variable funcDir, a token sequence
    url,          \* package variable url
    args,         \* the flags given on the command line: <<>> or <<value>> for each
    current,      \* the target's live slot (owned by the target)
    getStatus,    \* the status the target answers GET /deploy with
    mpc,          \* position of the main path (RunE, startWatching, Execute)
    gpc,          \* position of the event goroutine of startWatching
    run,          \* per thread: the strategy invocation it is executing
    err,          \* startWatching's local err, captured by the goroutine (tracked
                  \* until the main path blocks on done and stops reading it)
    retErr,       \* the error RunE returned to Execute
    exitCode,     \* process exit status, set when mpc becomes "exited"
    added,        \* directories registered with watcher.Add so far
    events,       \* filesystem events not yet received from watcher.Events
    errorsQ,      \* errors not yet received from watcher.Errors
    nEvents,      \* events and errors produced so far (bounded)
    nErrors,      \* history: errors received from watcher.Errors so far
    triggeredBy,  \* history: the goroutine's runs so far; for the latest, the run that
                  \* was in flight when its event arrived, and how many runs that one caused
    okSlots       \* history: the slots of the last two runs that returned nil

vars == <<strategy, watch, staticDir, environ, fsTree, apiKey, apiSecretKey, funcDir,
          url, args, current, getStatus, mpc, gpc, run, err, retErr, exitCode, added, events,
          errorsQ, nEvents, nErrors, triggeredBy, okSlots>>

config == <<strategy, watch, staticDir, environ, fsTree, apiKey, apiSecretKey, funcDir,
            url, args>>

----------------------------------------------------------------------------
(* Bounds *)

MaxEvents == 3      \* filesystem events and watcher errors produced in one behaviour
MaxEarly == 1       \* of those, produced while the directories are still being registered
MaxPending == 2     \* events waiting in watcher.Events at one time
NumFuncDirs == 2    \* directories under funcDir (the root and one below it)

----------------------------------------------------------------------------
(* Program constants *)

StatusNoContent == 204

Threads == {"main", "watch"}

Statuses == {200, 204, 500}

\* A response: a transport error, or a status and a body.
TransportError == [fail |-> TRUE, status |-> 0, body |-> ""]
Response(s, b) == [fail |-> FALSE, status |-> s, body |-> b]
PhaseResponses == {TransportError} \cup {Response(s, "") : s \in Statuses}

\* What GET /deploy can answer while the target's live slot is cur.
GetResponses(cur) ==
    {TransportError}
    \cup {Response(getStatus, b) : b \in {cur, cur \o "\n", "", "purple"}}

\* Error values: the message text, the item named in it, the wrapped cause.
Err(text, item, cause) == [text |-> text, item |-> item, cause |-> cause]
NoErr == Err("", <<>>, "")

\* No flag given.
NoArgs == [strategy |-> <<>>, funcDir |-> <<>>, staticDir |-> <<>>, url |-> <<>>]

\* An environment whose names hold the prefix twice, or not at the start.
PrefixEnviron ==
    << [name |-> <<"MY_", "ATROCITY_", "X">>, value |-> "0"],
       [name |-> <<"ATROCITY_", "ATROCITY_", "K">>, value |-> "a=b"],
       [name |-> <<"ATROCITY_", "A">>, value |-> ""] >>

Environs ==
    { <<>>,
      << [name |-> <<"PATH">>, value |-> "/bin"],
         [name |-> <<"ATROCITY_", "A">>, value |-> "1"],
         [name |-> <<"ATROCITY_", "B">>, value |-> "2"] >> }

\* The static-assets tree in filepath.Walk order (lexical), when configured.
StaticTree ==
    << [path |-> <<"static">>, isDir |-> TRUE],
       [path |-> <<"static", "/", ".", "env">>, isDir |-> FALSE],
       [path |-> <<"static", "/", "css">>, isDir |-> TRUE],
       [path |-> <<"static", "/", "css", "/", "a", ".", "css">>, isDir |-> FALSE],
       [path |-> <<"static", "/", "index", ".", "html">>, isDir |-> FALSE] >>

\* Other layouts of the static-assets directory: empty; nothing but a hidden file
\* and an empty directory; a hidden directory with a file in it and a hidden file
\* below a directory.
EmptyTree == << [path |-> <<"static">>, isDir |-> TRUE] >>

HiddenOnlyTree ==
    << [path |-> <<"static">>, isDir |-> TRUE],
       [path |-> <<"static", "/", ".", "env">>, isDir |-> FALSE],
       [path |-> <<"static", "/", "css">>, isDir |-> TRUE] >>

HiddenDirTree ==
    << [path |-> <<"static">>, isDir |-> TRUE],
       [path |-> <<"static", "/", ".", "git">>, isDir |-> TRUE],
       [path |-> <<"static", "/", ".", "git", "/", "config">>, isDir |-> FALSE],
       [path |-> <<"static", "/", "css">>, isDir |-> TRUE],
       [path |-> <<"static", "/", "css", "/", ".", "keep">>, isDir |-> FALSE],
       [path |-> <<"static", "/", "index", ".", "html">>, isDir |-> FALSE] >>

StaticTrees == {StaticTree, EmptyTree, HiddenOnlyTree, HiddenDirTree}

\* filepath.Clean of a directory name: a leading "./" and a trailing "/" go.
Clean(dir) ==
    LET a == IF Len(dir) > 1 /\ dir[Len(dir)] = "/" THEN SubSeq(dir, 1, Len(dir) - 1) ELSE dir
    IN  IF Len(a) > 2 /\ SubSeq(a, 1, 2) = <<".", "/">> THEN SubSeq(a, 3, Len(a)) ELSE a

\* filepath.Join(dir, rel): the paths filepath.Walk hands to its callback below the root
Join(dir, rel) == IF Clean(dir) = <<".">> THEN rel ELSE Clean(dir) \o <<"/">> \o rel

\* What filepath.Walk(dir, ...) visits when dir holds contents: the root as it was
\* spelled, then each entry joined to it.
Walk(dir, contents) ==
    << [path |-> dir, isDir |-> TRUE] >>
    \o [i \in 1..Len(contents) |->
          [path |-> Join(dir, contents[i].rel), isDir |-> contents[i].isDir]]

DirContents ==
    << [rel |-> <<"css">>, isDir |-> TRUE],
       [rel |-> <<"css", "/", "a", ".", "css">>, isDir |-> FALSE],
       [rel |-> <<"index", ".", "html">>, isDir |-> FALSE] >>

\* Other spellings of the static directory: ".", "./static", "static/".
SpelledDirs == { <<".">>, <<".", "/", "static">>, <<"static", "/">> }

\* The flag value that spells dir.
Spelling(dir) ==
    CASE dir = <<".">>                -> "."
      [] dir = <<".", "/", "static">> -> "./static"
      [] dir = <<"static", "/">>      -> "static/"
      [] OTHER                        -> "static"

StaticDirs == { <<>>, <<"static">> }

\* directories filepath.WalkDir(staticDir, ...) visits
NumStaticDirs == Len(SelectSeq(fsTree, LAMBDA f : f.isDir))

----------------------------------------------------------------------------
(* String helpers over token sequences *)

HasPrefix(s, p) == Len(s) >= Len(p) /\ SubSeq(s, 1, Len(p)) = p

\* Index of the first occurrence of p in s, 0 when there is none.
IndexOf(s, p) ==
    LET hits == {i \in 1..(Len(s) - Len(p) + 1) : SubSeq(s, i, i + Len(p) - 1) = p}
    IN  IF hits = {} THEN 0 ELSE CHOOSE i \in hits : \A j \in hits : i <= j

\* strings.Replace(s, p, "", 1)
RemoveFirst(s, p) ==
    LET i == IndexOf(s, p)
    IN  IF i = 0 \/ p = <<>> THEN s
        ELSE SubSeq(s, 1, i - 1) \o SubSeq(s, i + Len(p), Len(s))

\* filepath.Base for a path that does not end in a separator
Base(path) ==
    LET seps == {i \in 1..Len(path) : path[i] = "/"}
        last == IF seps = {} THEN 0 ELSE CHOOSE i \in seps : \A j \in seps : j <= i
    IN  SubSeq(path, last + 1, Len(path))

----------------------------------------------------------------------------
(* Pure functions of the deploy command *)

\* envvars, were the prefix looked for anywhere in the name
envvarsContains ==
    LET keep == SelectSeq(environ, LAMBDA e : IndexOf(e.name, <<"ATROCITY_">>) # 0)
    IN  [i \in 1..Len(keep) |->
            [key |-> RemoveFirst(keep[i].name, <<"ATROCITY_">>), value |-> keep[i].value]]

envvars ==
    LET keep == SelectSeq(environ, LAMBDA e : HasPrefix(e.name, <<"ATROCITY_">>))
    IN  [i \in 1..Len(keep) |->
            [key |-> RemoveFirst(keep[i].name, <<"ATROCITY_">>), value |-> keep[i].value]]

\* globAll, were the dot-prefixed names not skipped
globAllWithHidden(tree) ==
    LET files == SelectSeq(tree, LAMBDA f : ~f.isDir)
    IN  [i \in 1..Len(files) |-> files[i].path]

globAll(tree) ==
    LET files == SelectSeq(tree, LAMBDA f : ~f.isDir /\ ~HasPrefix(Base(f.path), <<".">>))
    IN  [i \in 1..Len(files) |-> files[i].path]

removeDir(f, dir) ==
    LET s == RemoveFirst(f, dir)
    IN  IF HasPrefix(s, <<"/">>) THEN Tail(s) ELSE s

\* bluegreen's choice of slot; <<>> stands for the "failed to get current deploy id" branch
NextSlotKeepsCurrent(body) ==
    IF body \in {"blue", "green"} THEN <<body>> ELSE <<>>

NextSlotDefaultsToBlue(body) ==
    IF body = "blue" THEN <<"green">> ELSE <<"blue">>

NextSlot(body) ==
    IF body = "blue" THEN <<"green">>
    ELSE IF body = "green" THEN <<"blue">>
    ELSE <<>>

\* The order of the phases in deploy(); "statics" is the Statics phase's entry.
PhaseAfterSecretsFirst(p) ==
    CASE p = "bluegreen" -> "secrets"
      [] p = "secrets"   -> "begin"
      [] p = "begin"     -> "function"
      [] p = "function"  -> "statics"
      [] p = "statics"   -> "activate"
      [] p = "static"    -> "activate"
      [] p = "activate"  -> "done"

PhaseAfter(p) ==
    CASE p = "bluegreen" -> "begin"
      [] p = "begin"     -> "secrets"
      [] p = "secrets"   -> "function"
      [] p = "function"  -> "statics"
      [] p = "statics"   -> "activate"
      [] p = "static"    -> "activate"
      [] p = "activate"  -> "done"

\* http.DetectContentType never answers the empty string; the files of the model
\* hold what their names say.
DetectContentType(f) ==
    IF f[Len(f)] = "html" THEN "text/html; charset=utf-8" ELSE "text/plain; charset=utf-8"

\* httpCall: the request with its headers, as a set of <<name, value>>, and its
\* body, a token sequence (<<>> for nil)
httpCall(method, path, contentType, body) ==
    [method |-> method,
     path   |-> path,
     body   |-> body,
     header |-> {<<"Content-Type", contentType>>}
                \cup (IF apiKey # "" THEN {<<"API_KEY", apiKey>>} ELSE {})
                \cup (IF apiSecretKey # "" THEN {<<"API_SECRET_KEY", apiSecretKey>>} ELSE {})]

httpPut(path, contentType, body) == httpCall("PUT", path, contentType, body)
httpPost(path, contentType, body) == httpCall("POST", path, contentType, body)
httpGet(path) == httpCall("GET", path, "text/plain", <<>>)

\* Requests
\* getDeployId, were it to use http.Get as the revisions before httpGet did
GetDeployCallPlain ==
    [method |-> "GET", path |-> <<"deploy">>, body |-> <<>>, header |-> {}]

GetDeployCall == httpGet(<<"deploy">>)
BeginCall(id) == httpPost(<<"deploy", id, "begin">>, "text/plain", <<>>)
SecretCall(id, key, value) ==
    httpPut(<<"deploy", id, "secret">> \o key, "text/plain", <<value>>)
FunctionCall(id) == httpPut(<<"deploy", id, "function">>, "text/plain", <<"bundle">>)
StaticCall(id, fpath, contentType, contents) ==
    httpPut(<<"deploy", id, "static">> \o fpath, contentType, contents)

ActivateCallOtherSlot(id) ==
    httpPost(<<"deploy", IF id = "blue" THEN "green" ELSE "blue", "activate">>,
             "text/plain", <<>>)

ActivateCall(id) == httpPost(<<"deploy", id, "activate">>, "text/plain", <<>>)

\* os.Exit(1) in Execute when rootCmd.Execute() returns an error
ExitStatusAlwaysZero(e) == 0

ExitStatus(e) == IF e = NoErr THEN 0 ELSE 1

----------------------------------------------------------------------------
(* One strategy invocation, on thread t *)

Idle == [pc |-> "idle", deployId |-> "", reported |-> "", i |-> 1,
         trace |-> <<>>, err |-> NoErr]

Fresh == [Idle EXCEPT !.pc = "bluegreen"]

Alive == mpc # "exited"

InFlight(t) == run[t].pc \notin {"idle", "done"}

\* r after an external operation op answered resp
Did(r, op, resp) == [r EXCEPT !.trace = Append(@, [op |-> op, resp |-> resp])]

\* What ioutil.ReadFile(f) returns for f
Contents(f) == <<"contents of">> \o f

\* Operations that are not requests: the bundler and ioutil.ReadFile
BundleOp == [method |-> "BUNDLE", path |-> <<>>]
ReadFileOp(f) == [method |-> "READ", path |-> f]
LocalResults == {TransportError, Response(0, "")}

\* "return err": the run ends with e
AbortKeepsGoing(r, e) == [r EXCEPT !.err = e, !.pc = PhaseAfter(r.pc), !.i = 1]

Abort(r, e) == [r EXCEPT !.err = e, !.pc = "done"]

\* the phase returned nil: deploy() goes on to the next one
Proceed(r) == [r EXCEPT !.pc = PhaseAfter(r.pc), !.i = 1]

\* The status test, were any 2xx status taken as success
AcceptedAny2xx(resp) == ~resp.fail /\ resp.status \in 200..299

Accepted(resp) == ~resp.fail /\ resp.status = StatusNoContent

Step(t, r) == run' = [run EXCEPT ![t] = r]

\* The target switches its live slot when it accepts activate.
TargetAfter(op, resp) ==
    IF Accepted(resp) /\ op.path[Len(op.path)] = "activate" THEN op.path[2] ELSE current

\* Ghost: a run that returned nil is appended to okSlots.
Finished(r) ==
    IF r.pc = "done" /\ r.err = NoErr
      THEN [prev |-> okSlots.last, last |-> r.deployId]
      ELSE okSlots

\* bluegreen, were getDeployId to return an error for a status other than 200
bluegreenChecksStatus(t) ==
    /\ Alive /\ run[t].pc = "bluegreen"
    /\ \E resp \in GetResponses(current) :
         LET r    == Did(run[t], GetDeployCall, resp)
             slot == NextSlot(resp.body)
         IN  Step(t, IF resp.fail \/ resp.status # 200
                       THEN Abort(r, Err("error getting deploy id", <<>>, "transport"))
                     ELSE IF slot = <<>>
                       THEN Abort([r EXCEPT !.reported = resp.body],
                                  Err("failed to get current deploy id", <<>>, ""))
                     ELSE Proceed([r EXCEPT !.reported = resp.body, !.deployId = slot[1]]))
    /\ UNCHANGED <<config, current, getStatus, mpc, gpc, err, retErr, exitCode, added,
                   events, errorsQ, nEvents, nErrors, triggeredBy, okSlots>>

\* bluegreen(): getDeployId(), the choice of the other slot, then deploy()
bluegreen(t) ==
    /\ Alive /\ run[t].pc = "bluegreen"
    /\ \E resp \in GetResponses(current) :
         LET r    == Did(run[t], GetDeployCall, resp)
             slot == NextSlot(resp.body)
         IN  Step(t, IF resp.fail
                       THEN Abort(r, Err("error getting deploy id", <<>>, "transport"))
                     ELSE IF slot = <<>>
                       THEN Abort([r EXCEPT !.reported = resp.body],
                                  Err("failed to get current deploy id", <<>>, ""))
                     ELSE Proceed([r EXCEPT !.reported = resp.body, !.deployId = slot[1]]))
    /\ UNCHANGED <<config, current, getStatus, mpc, gpc, err, retErr, exitCode, added, events,
                   errorsQ, nEvents, nErrors, triggeredBy, okSlots>>

beginDeployment(t) ==
    /\ Alive /\ run[t].pc = "begin"
    /\ \E resp \in PhaseResponses :
         LET r == Did(run[t], BeginCall(run[t].deployId), resp)
         IN  Step(t, IF resp.fail
                       THEN Abort(r, Err("error starting deployment", <<>>, "transport"))
                     ELSE IF Accepted(resp) THEN Proceed(r)
                     ELSE Abort(r, Err("failed to begin deployment", <<>>, "nil")))
    /\ UNCHANGED <<config, current, getStatus, mpc, gpc, err, retErr, exitCode, added, events,
                   errorsQ, nEvents, nErrors, triggeredBy, okSlots>>

\* deploySecrets, were a refused secret skipped instead of returned
deploySecretsSkipsRefused(t) ==
    /\ Alive /\ run[t].pc = "secrets"
    /\ \/ /\ run[t].i > Len(envvars)
          /\ Step(t, Proceed(run[t]))
       \/ /\ run[t].i <= Len(envvars)
          /\ \E resp \in PhaseResponses :
               LET v == envvars[run[t].i]
                   r == Did(run[t], SecretCall(run[t].deployId, v.key, v.value), resp)
               IN  Step(t, IF resp.fail
                             THEN Abort(r, Err("error deploying secret", v.key, "transport"))
                           ELSE [r EXCEPT !.i = @ + 1])
    /\ UNCHANGED <<config, current, getStatus, mpc, gpc, err, retErr, exitCode, added, events,
                   errorsQ, nEvents, nErrors, triggeredBy, okSlots>>

\* One iteration of deploySecrets' loop, or its end.
deploySecrets(t) ==
    /\ Alive /\ run[t].pc = "secrets"
    /\ \/ /\ run[t].i > Len(envvars)
          /\ Step(t, Proceed(run[t]))
       \/ /\ run[t].i <= Len(envvars)
          /\ \E resp \in PhaseResponses :
               LET v == envvars[run[t].i]
                   r == Did(run[t], SecretCall(run[t].deployId, v.key, v.value), resp)
               IN  Step(t, IF resp.fail
                             THEN Abort(r, Err("error deploying secret", v.key, "transport"))
                           ELSE IF Accepted(resp) THEN [r EXCEPT !.i = @ + 1]
                           ELSE Abort(r, Err("failed to deploy secret", v.key, "")))
    /\ UNCHANGED <<config, current, getStatus, mpc, gpc, err, retErr, exitCode, added, events,
                   errorsQ, nEvents, nErrors, triggeredBy, okSlots>>

\* deployFunction(): bundle(), then the upload of the bundle
deployFunction(t) ==
    /\ Alive /\ run[t].pc = "function"
    /\ \E built \in LocalResults :
         \/ /\ built.fail
            /\ Step(t, Abort(Did(run[t], BundleOp, built),
                             Err("error while bundling", <<>>, "")))
         \/ /\ ~built.fail
            /\ \E resp \in PhaseResponses :
                 LET r == Did(Did(run[t], BundleOp, built),
                              FunctionCall(run[t].deployId), resp)
                 IN  Step(t, IF resp.fail
                               THEN Abort(r, Err("error deploying bundle", <<>>, "transport"))
                             ELSE IF Accepted(resp) THEN Proceed(r)
                             ELSE Abort(r, Err("failed to deploy bundle", <<>>, "")))
    /\ UNCHANGED <<config, current, getStatus, mpc, gpc, err, retErr, exitCode, added, events,
                   errorsQ, nEvents, nErrors, triggeredBy, okSlots>>

\* deployStatics, were a missing static directory an error
deployStaticsRequiresDir(t) ==
    /\ Alive /\ run[t].pc = "statics"
    /\ \/ /\ staticDir = <<>>
          /\ Step(t, Abort(run[t], Err("error globbing files", <<>>, "walk")))
       \/ /\ staticDir # <<>>
          /\ Step(t, [run[t] EXCEPT !.pc = "static", !.i = 1])
    /\ UNCHANGED <<config, current, getStatus, mpc, gpc, err, retErr, exitCode, added, events,
                   errorsQ, nEvents, nErrors, triggeredBy, okSlots>>

\* deployStatics(): nothing to do without a static directory; else globAll
deployStatics(t) ==
    /\ Alive /\ run[t].pc = "statics"
    /\ \/ /\ staticDir = <<>>
          /\ Step(t, Proceed(run[t]))
       \/ /\ staticDir # <<>>
          /\ Step(t, [run[t] EXCEPT !.pc = "static", !.i = 1])
    /\ UNCHANGED <<config, current, getStatus, mpc, gpc, err, retErr, exitCode, added, events,
                   errorsQ, nEvents, nErrors, triggeredBy, okSlots>>

\* One iteration of deployStatics' loop over the globbed files, or its end.
deployStatic(t) ==
    LET files == globAll(fsTree) IN
    /\ Alive /\ run[t].pc = "static"
    /\ \/ /\ run[t].i > Len(files)
          /\ Step(t, Proceed(run[t]))
       \/ /\ run[t].i <= Len(files)
          /\ \E read \in LocalResults :
               LET f == files[run[t].i] IN
               \/ /\ read.fail
                  /\ Step(t, Abort(Did(run[t], ReadFileOp(f), read),
                                   Err("error reading file", f, "read")))
               \/ /\ ~read.fail
                  /\ \E resp \in PhaseResponses :
                       LET fpath == removeDir(f, staticDir)
                           r == Did(Did(run[t], ReadFileOp(f), read),
                                    StaticCall(run[t].deployId, fpath,
                                               DetectContentType(f), Contents(f)), resp)
                       IN  Step(t, IF resp.fail
                                     THEN Abort(r, Err("error deploying static file", f, "transport"))
                                   ELSE IF Accepted(resp) THEN [r EXCEPT !.i = @ + 1]
                                   ELSE Abort(r, Err("failed to deploy static file", f, "")))
    /\ UNCHANGED <<config, current, getStatus, mpc, gpc, err, retErr, exitCode, added, events,
                   errorsQ, nEvents, nErrors, triggeredBy, okSlots>>

activateDeployment(t) ==
    /\ Alive /\ run[t].pc = "activate"
    /\ \E resp \in PhaseResponses :
         LET op == ActivateCall(run[t].deployId)
             r  == Did(run[t], op, resp)
             r2 == IF resp.fail
                     THEN Abort(r, Err("error activating deployment", <<>>, "transport"))
                   ELSE IF Accepted(resp) THEN Proceed(r)
                   ELSE Abort(r, Err("failed to activate deployment", <<>>, "nil"))
         IN  /\ Step(t, r2)
             /\ current' = TargetAfter(op, resp)
             /\ okSlots' = Finished(r2)
    /\ UNCHANGED <<config, getStatus, mpc, gpc, err, retErr, exitCode, added, events,
                   errorsQ, nEvents, nErrors, triggeredBy>>

----------------------------------------------------------------------------
(* Settings: the init() functions of the cmd package, then cobra's flag parsing *)

atroctlFuncDir == <<"ATROCTL_FUNC_DIR">>
atroctlStaticDir == <<"ATROCTL_STATIC_DIR">>
atroctlStrategy == <<"ATROCTL_STRATEGY">>
atroctlUrl == <<"ATROCTL_URL">>
atroctlApiKey == <<"ATROCTL_API_KEY">>
atroctlApiSecretKey == <<"ATROCTL_API_SECRET_KEY">>

\* os.Getenv
Getenv(name) ==
    LET hits == SelectSeq(environ, LAMBDA e : e.name = name)
    IN  IF hits = <<>> THEN "" ELSE hits[1].value

resolveStringFlag(value, envvar, fallback) ==
    LET v == IF value = "" THEN Getenv(envvar) ELSE value
    IN  IF v = "" THEN fallback ELSE v

\* A directory name without a separator, as the token sequence the model keeps.
Tokens(dir) == IF dir = "" THEN <<>> ELSE <<dir>>

\* init() of deploy.go. StringVarP has just stored each flag's default, "", in its
\* variable, and no flag is parsed yet.
init ==
    /\ mpc = "init"
    /\ funcDir' = Tokens(resolveStringFlag("", atroctlFuncDir, "src"))
    /\ staticDir' = Tokens(resolveStringFlag("", atroctlStaticDir, ""))
    /\ strategy' = resolveStringFlag("", atroctlStaticDir, "bluegreen")
    /\ mpc' = "rootInit"
    /\ UNCHANGED <<watch, environ, fsTree, apiKey, apiSecretKey, url, args, current, getStatus, gpc,
                   run, err, retErr, exitCode, added, events, errorsQ, nEvents, nErrors,
                   triggeredBy, okSlots>>

\* init() of root.go
rootInit ==
    /\ mpc = "rootInit"
    /\ url' = IF Getenv(atroctlUrl) = "" THEN "http://localhost:9090" ELSE Getenv(atroctlUrl)
    /\ apiKey' = Getenv(atroctlApiKey)
    /\ apiSecretKey' = Getenv(atroctlApiSecretKey)
    /\ mpc' = "parse"
    /\ UNCHANGED <<strategy, watch, staticDir, environ, fsTree, funcDir, args, current, getStatus,
                   gpc, run, err, retErr, exitCode, added, events, errorsQ, nEvents,
                   nErrors, triggeredBy, okSlots>>

\* rootCmd.Execute() parses the command line: a flag that is given is stored in its
\* variable, a flag that is not leaves what init() stored.
ParseFlags ==
    /\ mpc = "parse"
    /\ strategy' = IF args.strategy # <<>> THEN args.strategy[1] ELSE strategy
    /\ funcDir' = IF args.funcDir # <<>> THEN Tokens(args.funcDir[1]) ELSE funcDir
    /\ staticDir' = IF args.staticDir # <<>> THEN Tokens(args.staticDir[1]) ELSE staticDir
    /\ url' = IF args.url # <<>> THEN args.url[1] ELSE url
    /\ mpc' = "RunE"
    /\ UNCHANGED <<watch, environ, fsTree, apiKey, apiSecretKey, args, current, getStatus, gpc, run,
                   err, retErr, exitCode, added, events, errorsQ, nEvents, nErrors,
                   triggeredBy, okSlots>>

----------------------------------------------------------------------------
(* The main path: deployCmd.RunE, startWatching, Execute *)

UnsupportedStrategy == Err("strategy not supported", <<strategy>>, "")

\* resolveStrategy, were every name given a strategy function
resolveStrategyAny(name) == TRUE

\* resolveStrategy: TRUE for the names it has a strategy function for
resolveStrategy(name) == name = "bluegreen"

\* RunE up to the call of the strategy function, were that call not awaited
RunEAsync ==
    /\ mpc = "RunE"
    /\ \/ /\ resolveStrategy(strategy)
          /\ run' = [run EXCEPT !["main"] = Fresh]
          /\ mpc' = IF watch THEN "startWatching" ELSE "initial"
          /\ UNCHANGED retErr
       \/ /\ ~resolveStrategy(strategy)
          /\ retErr' = UnsupportedStrategy
          /\ mpc' = "returned"
          /\ UNCHANGED run
    /\ UNCHANGED <<config, current, getStatus, gpc, err, exitCode, added, events, errorsQ,
                   nEvents, nErrors, triggeredBy, okSlots>>

\* RunE: printHeader, resolveStrategy, and the call of the strategy function
RunE ==
    /\ mpc = "RunE"
    /\ \/ /\ resolveStrategy(strategy)
          /\ run' = [run EXCEPT !["main"] = Fresh]
          /\ mpc' = "initial"
          /\ UNCHANGED retErr
       \/ /\ ~resolveStrategy(strategy)
          /\ retErr' = UnsupportedStrategy
          /\ mpc' = "returned"
          /\ UNCHANGED run
    /\ UNCHANGED <<config, current, getStatus, gpc, err, exitCode, added, events, errorsQ,
                   nEvents, nErrors, triggeredBy, okSlots>>

\* RunE, were the watch loop started whatever the initial run returned
RunEAfterInitialWatchesAnyway ==
    /\ mpc = "initial" /\ run["main"].pc = "done"
    /\ \/ /\ run["main"].err # NoErr /\ ~watch
          /\ retErr' = run["main"].err
          /\ mpc' = "returned"
       \/ /\ watch
          /\ mpc' = "startWatching"
          /\ UNCHANGED retErr
       \/ /\ run["main"].err = NoErr /\ ~watch
          /\ mpc' = "returned"
          /\ UNCHANGED retErr
    /\ UNCHANGED <<config, current, getStatus, gpc, run, err, exitCode, added, events, errorsQ,
                   nEvents, nErrors, triggeredBy, okSlots>>

\* RunE once the initial run has returned
RunEAfterInitial ==
    /\ mpc = "initial" /\ run["main"].pc = "done"
    /\ \/ /\ run["main"].err # NoErr
          /\ retErr' = run["main"].err
          /\ mpc' = "returned"
       \/ /\ run["main"].err = NoErr /\ watch
          /\ mpc' = "startWatching"
          /\ UNCHANGED retErr
       \/ /\ run["main"].err = NoErr /\ ~watch
          /\ mpc' = "returned"
          /\ UNCHANGED retErr
    /\ UNCHANGED <<config, current, getStatus, gpc, run, err, exitCode, added, events, errorsQ,
                   nEvents, nErrors, triggeredBy, okSlots>>

\* fsnotify.NewWatcher(), then "go func() { ... }()"
startWatching ==
    /\ mpc = "startWatching"
    /\ \/ /\ mpc' = "walkFunc"
          /\ gpc' = "select"
          /\ err' = NoErr
          /\ UNCHANGED retErr
       \/ /\ mpc' = "returned"
          /\ retErr' = Err("NewWatcher", <<>>, "inotify")
          /\ UNCHANGED <<gpc, err>>
    /\ UNCHANGED <<config, current, getStatus, run, exitCode, added, events, errorsQ,
                   nEvents, nErrors, triggeredBy, okSlots>>

AfterFuncWalk == IF staticDir # <<>> THEN "walkStatic" ELSE "checkErr"

\* err = filepath.WalkDir(funcDir, ...): one watcher.Add per directory
walkFuncDir ==
    /\ mpc = "walkFunc"
    /\ \/ /\ added.func < NumFuncDirs
          /\ added' = [added EXCEPT !.func = @ + 1]
          /\ UNCHANGED <<mpc, err>>
       \/ /\ added.func < NumFuncDirs
          /\ err' = Err("watcher.Add", <<"src">>, "inotify")
          /\ mpc' = AfterFuncWalk
          /\ UNCHANGED added
       \/ /\ added.func = NumFuncDirs
          /\ err' = NoErr
          /\ mpc' = AfterFuncWalk
          /\ UNCHANGED added
    /\ UNCHANGED <<config, current, getStatus, gpc, run, retErr, exitCode, events, errorsQ,
                   nEvents, nErrors, triggeredBy, okSlots>>

\* if staticDir != "" { err = filepath.WalkDir(staticDir, ...) }
walkStaticDir ==
    /\ mpc = "walkStatic"
    /\ \/ /\ added.static < NumStaticDirs
          /\ added' = [added EXCEPT !.static = @ + 1]
          /\ UNCHANGED <<mpc, err>>
       \/ /\ added.static < NumStaticDirs
          /\ err' = Err("watcher.Add", staticDir, "inotify")
          /\ mpc' = "checkErr"
          /\ UNCHANGED added
       \/ /\ added.static = NumStaticDirs
          /\ err' = NoErr
          /\ mpc' = "checkErr"
          /\ UNCHANGED added
    /\ UNCHANGED <<config, current, getStatus, gpc, run, retErr, exitCode, events, errorsQ,
                   nEvents, nErrors, triggeredBy, okSlots>>

\* if err != nil { return err }; <-done
checkErr ==
    /\ mpc = "checkErr"
    /\ \/ /\ err # NoErr
          /\ retErr' = err
          /\ mpc' = "returned"
       \/ /\ err = NoErr
          /\ mpc' = "blocked"
          /\ UNCHANGED retErr
    /\ UNCHANGED <<config, current, getStatus, gpc, run, err, exitCode, added, events, errorsQ,
                   nEvents, nErrors, triggeredBy, okSlots>>

\* Execute: os.Exit(1) on an error, else main returns
Execute ==
    /\ mpc = "returned"
    /\ mpc' = "exited"
    /\ exitCode' = ExitStatus(retErr)
    /\ UNCHANGED <<config, current, getStatus, gpc, run, err, retErr, added, events, errorsQ,
                   nEvents, nErrors, triggeredBy, okSlots>>

----------------------------------------------------------------------------
(* The event goroutine of startWatching *)

EventOps == { {"Write"}, {"Create"}, {"Write", "Chmod"} }

\* The events case, were the operation compared with Write instead of masked
recvEventExactWrite ==
    /\ Alive /\ gpc = "select" /\ events # <<>>
    /\ LET event == Head(events) IN
       \/ /\ event.op = {"Write"}
          /\ gpc' = "running"
          /\ run' = [run EXCEPT !["watch"] = Fresh]
          /\ triggeredBy' =
                [runs   |-> triggeredBy.runs + 1,
                 during |-> event.during,
                 caused |-> IF event.during # 0 /\ event.during = triggeredBy.during
                              THEN triggeredBy.caused + 1 ELSE 1]
       \/ /\ event.op # {"Write"}
          /\ UNCHANGED <<gpc, run, triggeredBy>>
    /\ events' = Tail(events)
    /\ UNCHANGED <<config, current, getStatus, mpc, err, retErr, exitCode, added, errorsQ,
                   nEvents, nErrors, okSlots>>

\* case event, ok := <-watcher.Events, and the test event.Op&fsnotify.Write
recvEvent ==
    /\ Alive /\ gpc = "select" /\ events # <<>>
    /\ LET event == Head(events) IN
       \/ /\ "Write" \in event.op
          /\ gpc' = "running"
          /\ run' = [run EXCEPT !["watch"] = Fresh]
          /\ triggeredBy' =
                [runs   |-> triggeredBy.runs + 1,
                 during |-> event.during,
                 caused |-> IF event.during # 0 /\ event.during = triggeredBy.during
                              THEN triggeredBy.caused + 1 ELSE 1]
       \/ /\ "Write" \notin event.op
          /\ UNCHANGED <<gpc, run, triggeredBy>>
    /\ events' = Tail(events)
    /\ UNCHANGED <<config, current, getStatus, mpc, err, retErr, exitCode, added, errorsQ,
                   nEvents, nErrors, okSlots>>

\* The goroutine, were it to call fn() again when fn() returned an error
fnReturnedRetries ==
    /\ Alive /\ gpc = "running" /\ run["watch"].pc = "done"
    /\ \/ /\ run["watch"].err # NoErr
          /\ run' = [run EXCEPT !["watch"] = Fresh]
          /\ UNCHANGED <<gpc, err>>
       \/ /\ run["watch"].err = NoErr
          /\ err' = IF mpc = "blocked" THEN err ELSE NoErr
          /\ gpc' = "select"
          /\ run' = [run EXCEPT !["watch"] = Idle]
    /\ UNCHANGED <<config, current, getStatus, mpc, retErr, exitCode, added, events, errorsQ,
                   nEvents, nErrors, triggeredBy, okSlots>>

\* err = fn(): the result is stored in startWatching's err, the variable the main
\* path assigns and tests while it registers the directories. The two accesses are
\* not synchronised; every order of them is a behaviour. Once the main path waits
\* on done it never runs again, so nothing reads what is stored after that except
\* the goroutine's own print; the variable err keeps the value the main path saw.
fnReturned ==
    /\ Alive /\ gpc = "running" /\ run["watch"].pc = "done"
    /\ err' = IF mpc = "blocked" THEN err ELSE run["watch"].err
    /\ gpc' = "select"
    /\ run' = [run EXCEPT !["watch"] = Idle]
    /\ UNCHANGED <<config, current, getStatus, mpc, retErr, exitCode, added, events, errorsQ,
                   nEvents, nErrors, triggeredBy, okSlots>>

\* The errors case, were it to assign startWatching's err instead of declaring its own
recvErrorShared ==
    /\ Alive /\ gpc = "select" /\ errorsQ > 0
    /\ errorsQ' = errorsQ - 1
    /\ nErrors' = nErrors + 1
    /\ err' = Err("watcher error", <<>>, "inotify")
    /\ UNCHANGED <<config, current, getStatus, mpc, gpc, run, retErr, exitCode, added, events,
                   nEvents, triggeredBy, okSlots>>

\* case err, ok := <-watcher.Errors: the error is printed, the loop goes on
recvError ==
    /\ Alive /\ gpc = "select" /\ errorsQ > 0
    /\ errorsQ' = errorsQ - 1
    /\ nErrors' = nErrors + 1
    /\ UNCHANGED <<config, current, getStatus, mpc, gpc, run, err, retErr, exitCode, added, events,
                   nEvents, triggeredBy, okSlots>>

----------------------------------------------------------------------------
(* The filesystem-event source *)

Watching == added.func + added.static > 0

\* The source may still produce an event or an error.
Budget == nEvents < (IF mpc = "blocked" THEN MaxEvents ELSE MaxEarly)

\* The run of the goroutine that is in flight, 0 when it is idle.
RunInFlight == IF gpc = "running" THEN triggeredBy.runs ELSE 0

FsEvent ==
    /\ Alive /\ Watching
    /\ Budget /\ Len(events) < MaxPending
    /\ \E op \in EventOps :
         events' = Append(events, [op |-> op, during |-> RunInFlight])
    /\ nEvents' = nEvents + 1
    /\ UNCHANGED <<config, current, getStatus, mpc, gpc, run, err, retErr, exitCode, added,
                   errorsQ, nErrors, triggeredBy, okSlots>>

WatcherError ==
    /\ Alive /\ Watching
    /\ Budget /\ errorsQ = 0
    /\ errorsQ' = 1
    /\ nEvents' = nEvents + 1
    /\ UNCHANGED <<config, current, getStatus, mpc, gpc, run, err, retErr, exitCode, added,
                   events, nErrors, triggeredBy, okSlots>>

----------------------------------------------------------------------------

\* The rest of the state at process start.
Start ==
    /\ gpc = "none"
    /\ run = [t \in Threads |-> Idle]
    /\ err = NoErr
    /\ retErr = NoErr
    /\ exitCode = 0
    /\ added = [func |-> 0, static |-> 0]
    /\ events = <<>>
    /\ errorsQ = 0
    /\ nEvents = 0
    /\ nErrors = 0
    /\ triggeredBy = [runs |-> 0, during |-> 0, caused |-> 0]
    /\ okSlots = [prev |-> "", last |-> ""]

\* The deploy command as RunE is entered, its settings given as flags.
Init ==
    /\ strategy \in {"bluegreen", "gitrev"}
    /\ watch \in BOOLEAN
    /\ staticDir \in StaticDirs
    /\ fsTree = IF staticDir = <<>> THEN <<>> ELSE StaticTree
    /\ environ \in Environs
    /\ apiKey = "key" /\ apiSecretKey = ""
    /\ funcDir = <<"src">>
    /\ url = "http://localhost:9090"
    /\ args = [NoArgs EXCEPT !.strategy = <<strategy>>,
                             !.staticDir = IF staticDir = <<>> THEN <<>> ELSE <<"static">>]
    /\ current \in {"blue", "green"}
    /\ getStatus = 200
    /\ mpc = "RunE"
    /\ Start

Next ==
    \/ RunE
    \/ RunEAfterInitial
    \/ startWatching
    \/ walkFuncDir
    \/ walkStaticDir
    \/ checkErr
    \/ Execute
    \/ recvEvent
    \/ fnReturned
    \/ recvError
    \/ FsEvent
    \/ WatcherError
    \/ \E t \in Threads : bluegreen(t)
    \/ \E t \in Threads : beginDeployment(t)
    \/ \E t \in Threads : deploySecrets(t)
    \/ \E t \in Threads : deployFunction(t)
    \/ \E t \in Threads : deployStatics(t)
    \/ \E t \in Threads : deployStatic(t)
    \/ \E t \in Threads : activateDeployment(t)

Spec == Init /\ [][Next]_vars

----------------------------------------------------------------------------
(* One run of the deploy command, from RunE to its return or to the start of the
   watch loop, over the layouts of the static directory and the credentials *)

InitRun ==
    /\ strategy \in {"bluegreen", "gitrev"}
    /\ watch \in BOOLEAN
    /\ staticDir \in StaticDirs \cup SpelledDirs
    /\ fsTree \in IF staticDir = <<>> THEN {<<>>}
                  ELSE IF staticDir \in SpelledDirs THEN {Walk(staticDir, DirContents)}
                  ELSE StaticTrees
    /\ environ \in Environs \cup {PrefixEnviron}
    /\ apiKey \in {"", "key"}
    /\ apiSecretKey \in {"", "secret"}
    /\ funcDir = <<"src">>
    /\ url = "http://localhost:9090"
    /\ args = [NoArgs EXCEPT !.strategy = <<strategy>>,
                             !.staticDir = IF staticDir = <<>> THEN <<>>
                                           ELSE <<Spelling(staticDir)>>]
    /\ current \in {"blue", "green"}
    /\ getStatus \in {200, 500}
    /\ mpc = "RunE"
    /\ Start

NextRun ==
    \/ RunE
    \/ RunEAfterInitial
    \/ Execute
    \/ bluegreen("main")
    \/ beginDeployment("main")
    \/ deploySecrets("main")
    \/ deployFunction("main")
    \/ deployStatics("main")
    \/ deployStatic("main")
    \/ activateDeployment("main")

SpecRun == InitRun /\ [][NextRun]_vars

----------------------------------------------------------------------------
(* The settings a command line and an environment resolve to *)

Opt(given, e) == IF given THEN <<e>> ELSE <<>>

\* Environments with any of the ATROCTL_ variables set.
SettingEnvirons ==
    { Opt(g, [name |-> atroctlStrategy, value |-> "gitrev"])
      \o Opt(f, [name |-> atroctlFuncDir, value |-> "functions"])
      \o Opt(d, [name |-> atroctlStaticDir, value |-> "static"])
      \o Opt(u, [name |-> atroctlUrl, value |-> "http://atrocity:9090"])
      \o Opt(k, [name |-> atroctlApiKey, value |-> "key"])
      \o Opt(k, [name |-> atroctlApiSecretKey, value |-> "secret"])
      : g \in BOOLEAN, f \in BOOLEAN, d \in BOOLEAN, u \in BOOLEAN, k \in BOOLEAN }

\* Command lines with any of --strategy, --funcDir, --staticDir, --url given.
ArgSets ==
    [strategy : {<<>>, <<"uuid">>}, funcDir : {<<>>, <<"lib">>},
     staticDir : {<<>>, <<"assets">>}, url : {<<>>, <<"https://example.com">>}]

\* The process before the package is initialised: every variable has its zero value.
InitFlags ==
    /\ environ \in SettingEnvirons
    /\ args \in ArgSets
    /\ strategy = "" /\ funcDir = <<>> /\ staticDir = <<>> /\ url = ""
    /\ apiKey = "" /\ apiSecretKey = ""
    /\ watch = FALSE
    /\ fsTree = <<>>
    /\ current = "blue"
    /\ getStatus = 200
    /\ mpc = "init"
    /\ Start

NextFlags ==
    \/ init
    \/ rootInit
    \/ ParseFlags

SpecFlags == InitFlags /\ [][NextFlags]_vars

----------------------------------------------------------------------------
(* Vocabulary of the properties *)

Methods == {"GET", "POST", "PUT"}

\* The requests of a run, in the order issued.
HttpCalls(r) == SelectSeq(r.trace, LAMBDA e : e.op.method \in Methods)

\* "local" for the bundler and the file reads
Kind(e) ==
    IF e.op.method \notin Methods THEN "local"
    ELSE IF Len(e.op.path) = 1 THEN "get"
    ELSE e.op.path[3]

Uploads == {"secret", "function", "static"}

Rank(k) ==
    CASE k = "get"      -> 0
      [] k = "begin"    -> 1
      [] k = "secret"   -> 2
      [] k = "function" -> 3
      [] k = "static"   -> 4
      [] k = "activate" -> 5

\* The operation failed: the transport, the bundler or the file read reported an
\* error, or the target answered a phase call with a status other than 204.
Refused(e) == e.op.method \in {"POST", "PUT"} /\ ~e.resp.fail /\ e.resp.status # 204
PhaseFailed(e) == e.resp.fail \/ Refused(e)

Unrecognized(e) == Kind(e) = "get" /\ ~e.resp.fail /\ e.resp.body \notin {"blue", "green"}

Returned(r) == r.pc = "done"
Succeeded(r) == r.pc = "done" /\ r.err = NoErr

RunErrorTexts ==
    { "error getting deploy id", "failed to get current deploy id",
      "error starting deployment", "failed to begin deployment",
      "error deploying secret", "failed to deploy secret",
      "error while bundling", "error deploying bundle", "failed to deploy bundle",
      "error reading file", "error deploying static file", "failed to deploy static file",
      "error activating deployment", "failed to activate deployment" }

----------------------------------------------------------------------------
(* Properties *)

\* C1: in every run, begin is issued before any secret, function or static upload,
\* the calls follow the order begin, secrets, function, statics, activate, and in a
\* run that returns nil activate is the last call issued.
C1_PhaseOrder ==
    \A t \in Threads :
        LET c == HttpCalls(run[t]) IN
        /\ \A i \in 1..Len(c) :
              Kind(c[i]) \in Uploads =>
                  \E j \in 1..(i - 1) : Kind(c[j]) = "begin"
        /\ \A i, j \in 1..Len(c) : i < j => Rank(Kind(c[i])) <= Rank(Kind(c[j]))
        /\ \A i, j \in 1..Len(c) :
              i < j /\ Kind(c[i]) = Kind(c[j]) => Kind(c[i]) \in {"secret", "static"}
        /\ Succeeded(run[t]) => c # <<>> /\ Kind(c[Len(c)]) = "activate"

C1_Witness ==
    \E t \in Threads :
        /\ Succeeded(run[t])
        /\ \E i \in 1..Len(run[t].trace) : Kind(run[t].trace[i]) = "secret"
        /\ \E i \in 1..Len(run[t].trace) : Kind(run[t].trace[i]) = "static"

\* C2: once an operation of a run has failed, the run has returned an error and
\* that operation is the last one of the run: no later call, and no activate,
\* follows a failure.
C2_FailureAborts ==
    \A t \in Threads :
        LET tr == run[t].trace IN
        /\ \A i \in 1..Len(tr) :
              PhaseFailed(tr[i]) =>
                  /\ i = Len(tr)
                  /\ Returned(run[t])
                  /\ run[t].err # NoErr
        /\ run[t].err # NoErr => Returned(run[t])

C2_Witness ==
    \E t \in Threads :
        LET tr == run[t].trace IN
        /\ Returned(run[t]) /\ staticDir # <<>>
        /\ tr # <<>> /\ Kind(tr[Len(tr)]) = "function" /\ Refused(tr[Len(tr)])

\* C3: when GET /deploy answers a body other than "blue" or "green", the run
\* returns the resolution error, no slot is chosen and no phase call is issued.
C3_UnrecognizedSlot ==
    \A t \in Threads :
        LET tr == run[t].trace IN
        (tr # <<>> /\ Unrecognized(tr[1])) =>
            /\ Returned(run[t])
            /\ run[t].err = Err("failed to get current deploy id", <<>>, "")
            /\ run[t].deployId = ""
            /\ Len(tr) = 1

C3_Witness ==
    \E t \in Threads :
        /\ Returned(run[t]) /\ run[t].trace # <<>>
        /\ ~run[t].trace[1].resp.fail /\ run[t].trace[1].resp.body = ""

\* C4: every run starts with its own GET /deploy and deploys to the slot other than
\* the one that GET reported; with the target reporting the slot last activated,
\* two consecutive runs that returned nil deployed to different slots.
C4_Alternation ==
    /\ okSlots.prev # "" => okSlots.prev # okSlots.last
    /\ okSlots.last # "" => current = okSlots.last
    /\ \A t \in Threads :
          run[t].deployId # "" =>
              /\ Kind(run[t].trace[1]) = "get"
              /\ run[t].trace[1].resp.body \in {"blue", "green"}
              /\ run[t].deployId \in {"blue", "green"} \ {run[t].trace[1].resp.body}

C4_Witness ==
    /\ okSlots.prev = "green" /\ okSlots.last = "blue"
    /\ Succeeded(run["watch"])

\* C5: the main path and the event goroutine never execute the strategy function
\* at the same time: the initial run has returned before the goroutine exists, and
\* the goroutine has a run in flight exactly while it is inside fn().
C5_OneRunAtATime ==
    /\ ~(InFlight("main") /\ InFlight("watch"))
    /\ gpc # "none" => Returned(run["main"])
    /\ run["watch"].pc # "idle" <=> gpc = "running"

C5_Witness ==
    /\ InFlight("watch")
    /\ events # <<>> /\ "Write" \in Head(events).op
    /\ errorsQ > 0

\* C6: of the write events that arrive while one run is in flight, at most one
\* triggers a run afterwards.
C6_BurstCoalesced == triggeredBy.caused <= 1

\* C7: when a secret upload is answered with a status other than 204, it is the
\* last operation of the run (no further secret, no function, static or activate
\* call) and the error returned names that secret's key.
C7_SecretRefused ==
    \A t \in Threads :
        LET tr == run[t].trace IN
        \A i \in 1..Len(tr) :
            (Kind(tr[i]) = "secret" /\ Refused(tr[i])) =>
                /\ i = Len(tr)
                /\ Returned(run[t])
                /\ run[t].err.text = "failed to deploy secret"
                /\ run[t].err.item = SubSeq(tr[i].op.path, 4, Len(tr[i].op.path))
                /\ \A j \in 1..Len(tr) : Kind(tr[j]) \notin {"function", "static", "activate"}

C7_Witness ==
    \E t \in Threads :
        /\ Returned(run[t])
        /\ Len(envvars) = 2
        /\ Len(run[t].trace) = 3
        /\ Refused(run[t].trace[3])
        /\ run[t].err.item = <<"A">>

\* Every watcher.Add of the directory walks succeeded.
AllRegistered ==
    /\ added.func = NumFuncDirs
    /\ staticDir # <<>> => added.static = NumStaticDirs

\* C8: once the watch loop is started and the directories are registered, RunE
\* never returns the error of a run: a failed re-deployment does not end
\* startWatching or the process.
C8_FailedRunKeepsLoop ==
    (gpc # "none" /\ AllRegistered /\ mpc \in {"returned", "exited"}) =>
        retErr.text \notin RunErrorTexts

\* C9: outside watch mode the process exits with a non-zero status exactly when
\* the strategy is unsupported or the run met a failure (an unrecognized slot or
\* a failed phase), and with status zero otherwise.
C9_ExitStatus ==
    (mpc = "exited" /\ ~watch) =>
        LET tr == run["main"].trace
            failure == \/ strategy # "bluegreen"
                       \/ \E i \in 1..Len(tr) : PhaseFailed(tr[i]) \/ Unrecognized(tr[i])
        IN  /\ failure => exitCode # 0
            /\ ~failure => exitCode = 0 /\ Kind(tr[Len(tr)]) = "activate"

C9_Witness ==
    /\ mpc = "exited" /\ ~watch
    /\ exitCode = 1
    /\ retErr.text = "failed to begin deployment"

\* C10: every phase call of a run names the slot resolved for that run, which is
\* not the slot GET /deploy reported; with "blue" reported and no static directory
\* a run that returns nil issued exactly begin, one secret call per ATROCITY_
\* variable, function and activate on green, in that order.
C10_OneSlotPerRun ==
    \A t \in Threads :
        LET c == HttpCalls(run[t]) IN
        /\ \A i \in 2..Len(c) :
              /\ c[i].op.path[2] = run[t].deployId
              /\ c[i].op.path[2] # run[t].reported
        /\ (Succeeded(run[t]) /\ run[t].reported = "blue" /\ staticDir = <<>>) =>
              [i \in 1..Len(c) |-> [method |-> c[i].op.method, path |-> c[i].op.path]] =
                  << [method |-> "GET", path |-> <<"deploy">>],
                     [method |-> "POST", path |-> <<"deploy", "green", "begin">>] >>
                  \o [i \in 1..Len(envvars) |->
                        [method |-> "PUT",
                         path |-> <<"deploy", "green", "secret">> \o envvars[i].key]]
                  \o << [method |-> "PUT", path |-> <<"deploy", "green", "function">>],
                        [method |-> "POST", path |-> <<"deploy", "green", "activate">>] >>

C10_Witness ==
    \E t \in Threads :
        /\ Succeeded(run[t]) /\ run[t].reported = "blue" /\ staticDir = <<>>
        /\ Len(envvars) = 2

\* The regular files of the static directory whose name does not begin with a dot.
Hidden(f) ==
    LET seps == {i \in 1..Len(f) : f[i] = "/"}
    IN  \E i \in 1..Len(f) : f[i] = "." /\ (i = 1 \/ i - 1 \in seps) /\ \A j \in seps : j < i

Uploadable == {i \in 1..Len(fsTree) : ~fsTree[i].isDir /\ ~Hidden(fsTree[i].path)}

StaticsOps(r) ==
    {i \in 1..Len(r.trace) : r.trace[i].op.method = "READ" \/ Kind(r.trace[i]) = "static"}

FunctionUploaded(r) ==
    \E i \in 1..Len(r.trace) : Kind(r.trace[i]) = "function" /\ Accepted(r.trace[i].resp)

\* C11: when the static directory is unconfigured, or configured and holding no
\* uploadable file, the Statics phase reads no file, issues no request and does not
\* fail: a run whose function upload was accepted goes on to activate, and returns
\* only after the activate call.
C11_NothingToUpload ==
    \A t \in Threads :
        (staticDir = <<>> \/ Uploadable = {}) =>
            /\ StaticsOps(run[t]) = {}
            /\ FunctionUploaded(run[t]) =>
                  /\ run[t].pc \in {"statics", "static", "activate", "done"}
                  /\ Returned(run[t]) =>
                        Kind(run[t].trace[Len(run[t].trace)]) = "activate"

C11_Witness ==
    /\ staticDir # <<>> /\ Uploadable = {} /\ Len(fsTree) > 1
    /\ Succeeded(run["main"])

\* C12: with a strategy name that has no strategy function, no run is started and
\* no request is issued, the watch loop is not started and no directory is
\* registered, and RunE returns the error that names the strategy; the process
\* exits non-zero.
C12_UnsupportedStrategy ==
    strategy # "bluegreen" =>
        /\ \A t \in Threads : run[t] = Idle
        /\ gpc = "none" /\ added = [func |-> 0, static |-> 0]
        /\ mpc \in {"RunE", "returned", "exited"}
        /\ mpc # "RunE" => retErr = Err("strategy not supported", <<strategy>>, "")
        /\ mpc = "exited" => exitCode # 0

C12_Witness ==
    /\ strategy = "gitrev" /\ watch
    /\ mpc = "exited" /\ retErr.item = <<"gitrev">>

\* strings.TrimSpace over the bodies GET /deploy answers
TrimSpace(body) ==
    CASE body = "blue\n"  -> "blue"
      [] body = "green\n" -> "green"
      [] OTHER            -> body

\* C13: a run whose GET /deploy answered a body that is "blue" or "green" once
\* trimmed resolves the slot the bare token resolves: the other slot.
C13_TrimmedBody ==
    \A t \in Threads :
        LET tr == run[t].trace IN
        (tr # <<>> /\ ~tr[1].resp.fail /\ TrimSpace(tr[1].resp.body) \in {"blue", "green"}) =>
            /\ run[t].deployId \in {"blue", "green"} \ {TrimSpace(tr[1].resp.body)}
            /\ run[t].err.text # "failed to get current deploy id"

\* The phase an error message belongs to, "" when it names none.
ErrorPhase(text) ==
    CASE text \in {"error starting deployment", "failed to begin deployment"} -> "begin"
      [] text \in {"error deploying secret", "failed to deploy secret"} -> "secret"
      [] text \in {"error while bundling", "error deploying bundle",
                   "failed to deploy bundle"} -> "function"
      [] text \in {"error reading file", "error deploying static file",
                   "failed to deploy static file"} -> "static"
      [] text \in {"error activating deployment", "failed to activate deployment"} -> "activate"
      [] OTHER -> ""

\* The phase an operation belongs to: the bundler to function, a file read to statics.
PhaseOf(e) ==
    CASE e.op.method = "BUNDLE" -> "function"
      [] e.op.method = "READ"   -> "static"
      [] OTHER                  -> Kind(e)

\* C14: when an operation of one of the phases begin, secrets, function, statics,
\* activate fails, the error the run returns names that phase and the failing item
\* (the secret's key, the static file's path) and carries the cause: the underlying
\* error when the operation itself failed, the observed status code when the target
\* answered with a status other than 204.
C14_ErrorCarriesCause ==
    \A t \in Threads :
        LET tr   == run[t].trace
            last == tr[Len(tr)]
        IN  (Returned(run[t]) /\ tr # <<>> /\ PhaseFailed(last) /\ PhaseOf(last) # "get") =>
                /\ ErrorPhase(run[t].err.text) = PhaseOf(last)
                /\ Kind(last) = "secret" =>
                      run[t].err.item = SubSeq(last.op.path, 4, Len(last.op.path))
                /\ last.op.method = "READ" => run[t].err.item = last.op.path
                /\ Kind(last) = "static" => run[t].err.item = tr[Len(tr) - 1].op.path
                /\ last.resp.fail => run[t].err.cause \notin {"", "nil"}
                /\ Refused(last) => run[t].err.cause = ToString(last.resp.status)

\* The value of header name in the request op, as a set (empty when it is not sent).
HeaderValues(op, name) == {h[2] : h \in {g \in op.header : g[1] = name}}

\* C15: every request of a run, the GET /deploy included, has a non-empty
\* Content-Type, carries API_KEY with the configured key exactly when the key is
\* non-empty, and API_SECRET_KEY with the configured secret exactly when the
\* secret is non-empty.
C15_Headers ==
    \A t \in Threads :
        LET c == HttpCalls(run[t]) IN
        \A i \in 1..Len(c) :
            /\ HeaderValues(c[i].op, "Content-Type") # {}
            /\ "" \notin HeaderValues(c[i].op, "Content-Type")
            /\ HeaderValues(c[i].op, "API_KEY") = (IF apiKey # "" THEN {apiKey} ELSE {})
            /\ HeaderValues(c[i].op, "API_SECRET_KEY") =
                  (IF apiSecretKey # "" THEN {apiSecretKey} ELSE {})

C15_Witness ==
    /\ apiKey # "" /\ apiSecretKey = ""
    /\ Succeeded(run["main"])
    /\ \E i \in 1..Len(run["main"].trace) : Kind(run["main"].trace[i]) = "static"
    /\ \E i \in 1..Len(run["main"].trace) : Kind(run["main"].trace[i]) = "secret"

\* Flag over environment over default.
Precedence(flag, envvar, default) ==
    LET set == {i \in 1..Len(environ) : environ[i].name = envvar /\ environ[i].value # ""}
    IN  IF flag # <<>> THEN flag[1]
        ELSE IF set # {} THEN environ[CHOOSE i \in set : TRUE].value
        ELSE default

\* C16: once the command line is parsed, the strategy is the --strategy flag when
\* given, else ATROCTL_STRATEGY when non-empty, else "bluegreen"; likewise the
\* function directory (ATROCTL_FUNC_DIR, "src"), the static directory
\* (ATROCTL_STATIC_DIR, "") and the URL (ATROCTL_URL, http://localhost:9090).
C16_Precedence ==
    mpc = "RunE" =>
        /\ strategy = Precedence(args.strategy, <<"ATROCTL_STRATEGY">>, "bluegreen")
        /\ funcDir = Tokens(Precedence(args.funcDir, <<"ATROCTL_FUNC_DIR">>, "src"))
        /\ staticDir = Tokens(Precedence(args.staticDir, <<"ATROCTL_STATIC_DIR">>, ""))
        /\ url = Precedence(args.url, <<"ATROCTL_URL">>, "http://localhost:9090")

\* A request a step issues was not issued before in the same run.
NoReissue ==
    \A t \in Threads :
        LET old == run[t].trace
            new == run'[t].trace
        IN  \A j \in (Len(old) + 1)..Len(new) :
                /\ SubSeq(new, 1, Len(old)) = old
                /\ new[j].op.method \in Methods =>
                      \A i \in 1..(j - 1) :
                          <<new[i].op.method, new[i].op.path>>
                              # <<new[j].op.method, new[j].op.path>>

\* A step that starts a run is RunE's call of the strategy function or the
\* goroutine's receipt of a write event.
StartsOnTrigger ==
    \A t \in Threads :
        (run'[t].pc = "bluegreen" /\ run[t] # run'[t]) =>
            \/ t = "main" /\ mpc = "RunE"
            \/ /\ t = "watch" /\ gpc = "select"
               /\ events # <<>> /\ "Write" \in Head(events).op /\ events' = Tail(events)

\* A run that has returned issues nothing more.
ReturnedIsOver ==
    \A t \in Threads :
        Returned(run[t]) => run'[t] = run[t] \/ (t = "watch" /\ run'[t] = Idle)

\* C17: no request is issued twice within a run, a run that has returned (failed or
\* not) issues no further call, and a new run starts only on a trigger: the start
\* of the process or the receipt of a write event.
C17_NoRetry == [][NoReissue /\ StartsOnTrigger /\ ReturnedIsOver]_vars

C17_Witness ==
    /\ Returned(run["watch"]) /\ run["watch"].err # NoErr
    /\ run["watch"].trace # <<>> /\ Refused(run["watch"].trace[Len(run["watch"].trace)])
    /\ events # <<>> /\ "Write" \in Head(events).op

\* The positions in r's trace of the file reads that were followed by the upload of
\* the file read.
StaticUploads(r) ==
    {i \in 1..(Len(r.trace) - 1) :
        r.trace[i].op.method = "READ" /\ Kind(r.trace[i + 1]) = "static"}

StaticsSucceeded(r) ==
    r.pc = "activate" \/ \E i \in 1..Len(r.trace) : Kind(r.trace[i]) = "activate"

\* C18: whatever the layout of the static directory, every static upload is the
\* upload of a file just read whose name does not begin with a dot, no upload is
\* addressed to a dot-prefixed name, and once the Statics phase has succeeded every
\* regular file of the tree whose name does not begin with a dot has been uploaded
\* exactly once.
C18_HiddenFilesSkipped ==
    \A t \in Threads :
        LET tr == run[t].trace
            up == StaticUploads(run[t])
        IN  /\ \A i \in 1..Len(tr) :
                  Kind(tr[i]) = "static" =>
                      /\ i - 1 \in up
                      /\ ~Hidden(tr[i - 1].op.path)
                      /\ ~Hidden(SubSeq(tr[i].op.path, 4, Len(tr[i].op.path)))
            /\ StaticsSucceeded(run[t]) =>
                  \A k \in Uploadable :
                      Cardinality({i \in up : tr[i].op.path = fsTree[k].path}) = 1

C18_Witness ==
    /\ fsTree = HiddenDirTree
    /\ StaticsSucceeded(run["main"])
    /\ Cardinality(StaticUploads(run["main"])) = 2

\* C19: receiving a watcher error changes nothing but the error queue: the
\* goroutine is back at its select, startWatching has not returned, no run is
\* started, and the events waiting are still there to be received.
C19_WatcherErrorNonFatal ==
    [][errorsQ' < errorsQ =>
          /\ gpc' = "select" /\ gpc = "select"
          /\ UNCHANGED <<mpc, run, err, retErr, exitCode, events, triggeredBy, added>>]_vars

C19_Witness ==
    /\ nErrors > 0 /\ errorsQ = 0
    /\ mpc = "blocked" /\ gpc = "running"
    /\ InFlight("watch")

\* C20: a step of the event goroutine leaves every variable of the main path as it
\* was: startWatching's err is never written by the goroutine.
C20_NoSharedState == [][(gpc = "running" /\ gpc' = "select") => err' = err]_vars

\* The slot was resolved, the bundler succeeded and every phase call got 204.
AllCalls204(r) ==
    /\ r.deployId # ""
    /\ \A i \in 1..Len(r.trace) :
          LET e == r.trace[i] IN
          /\ e.op.method = "BUNDLE" => ~e.resp.fail
          /\ e.op.method \in {"POST", "PUT"} => ~e.resp.fail /\ e.resp.status = 204

AllFilesRead(r) ==
    \A i \in 1..Len(r.trace) : r.trace[i].op.method = "READ" => ~r.trace[i].resp.fail

\* C21: a run that has returned returned nil if and only if the slot was
\* resolved, the bundler succeeded and every phase call it issued was answered
\* with status 204.
C21_SuccessIffAll204 ==
    \A t \in Threads :
        Returned(run[t]) => (run[t].err = NoErr <=> AllCalls204(run[t]))

\* C21, amended: a run that has returned returned nil if and only if the slot was
\* resolved, the bundler succeeded, every static file could be read and every
\* phase call it issued was answered with status 204.
C21_SuccessIffAllSucceeded ==
    \A t \in Threads :
        Returned(run[t]) =>
            (run[t].err = NoErr <=> AllCalls204(run[t]) /\ AllFilesRead(run[t]))

C21_Witness ==
    LET tr == run["main"].trace IN
    /\ Returned(run["main"]) /\ run["main"].err # NoErr
    /\ Len(tr) > 4 /\ Kind(tr[Len(tr)]) = "activate"
    /\ ~tr[Len(tr)].resp.fail /\ tr[Len(tr)].resp.status = 200

\* The path of file f relative to the directory dir it was found under.
RelativePath(f, dir) ==
    IF Clean(dir) = <<".">> THEN f ELSE SubSeq(f, Len(Clean(dir)) + 2, Len(f))

\* C22: every static upload is addressed to deploy/{slot}/static/ followed by the
\* path, relative to the static directory, of the file just read, whatever the
\* spelling of the directory; the relative path has no leading slash.
C22_RelativePath ==
    \A t \in Threads :
        LET tr == run[t].trace IN
        \A i \in 2..Len(tr) :
            Kind(tr[i]) = "static" =>
                /\ tr[i].op.method = "PUT"
                /\ tr[i].op.path = <<"deploy", run[t].deployId, "static">>
                                     \o RelativePath(tr[i - 1].op.path, staticDir)
                /\ tr[i].op.path[4] # "/"

\* The Secrets phase of r is over and none of its uploads failed.
SecretsDone(r) ==
    \/ r.pc = "function"
    \/ \E i \in 1..Len(r.trace) : r.trace[i].op.method = "BUNDLE"

\* The environment variables whose name starts with ATROCITY_, in order.
PrefixedVars == SelectSeq(environ, LAMBDA e : e.name # <<>> /\ e.name[1] = "ATROCITY_")

SecretCalls(r) == SelectSeq(r.trace, LAMBDA e : Kind(e) = "secret")

\* C23: once the Secrets phase of a run is over without a failed upload, its
\* secret calls are, one for each environment variable whose name starts with
\* ATROCITY_ and for no other, a PUT to deploy/{slot}/secret/{key} with the key the
\* name without that leading prefix and the body the variable's value.
C23_SecretsPerVariable ==
    \A t \in Threads :
        SecretsDone(run[t]) =>
            [i \in 1..Len(SecretCalls(run[t])) |->
                LET op == SecretCalls(run[t])[i].op
                IN  [method |-> op.method, path |-> op.path, body |-> op.body]]
            = [i \in 1..Len(PrefixedVars) |->
                [method |-> "PUT",
                 path   |-> <<"deploy", run[t].deployId, "secret">> \o Tail(PrefixedVars[i].name),
                 body   |-> <<PrefixedVars[i].value>>]]

C23_Witness ==
    /\ environ = PrefixEnviron
    /\ SecretsDone(run["main"])
    /\ Len(SecretCalls(run["main"])) = 2

ResolutionErrors == {"error getting deploy id", "failed to get current deploy id"}

\* C25: whatever the status of the GET /deploy response, a body "blue" or "green"
\* is taken as the current slot: the run chooses the other slot and its next call
\* is begin on that slot. The run returns a resolution error exactly when the GET
\* failed in transport or its body is neither "blue" nor "green".
C25_StatusIgnored ==
    \A t \in Threads :
        LET tr == run[t].trace IN
        tr # <<>> =>
            /\ Kind(tr[1]) = "get"
            /\ (~tr[1].resp.fail /\ tr[1].resp.body \in {"blue", "green"}) =>
                  /\ run[t].deployId \in {"blue", "green"} \ {tr[1].resp.body}
                  /\ Len(tr) >= 2 =>
                        Kind(tr[2]) = "begin" /\ tr[2].op.path[2] = run[t].deployId
            /\ run[t].err.text \in ResolutionErrors <=>
                  (tr[1].resp.fail \/ tr[1].resp.body \notin {"blue", "green"})

C25_Witness ==
    LET tr == run["main"].trace IN
    /\ Succeeded(run["main"])
    /\ tr[1].resp.status = 500 /\ tr[1].resp.body = "blue"
    /\ run["main"].deployId = "green"

\* The goroutine received an event in this step.
Received == Len(events') < Len(events)

\* C24: the goroutine is Idle (at its select) or Deploying (inside fn()). It
\* receives events only while Idle; a received event whose operation includes
\* Write moves it to Deploying and starts exactly one run, any other received
\* event leaves it Idle and starts none; nothing else starts a run of the loop;
\* and it leaves Deploying only for Idle, when the run has returned.
C24_TwoStateLoop ==
    [][/\ Received =>
             /\ gpc = "select" /\ events' = Tail(events)
             /\ IF "Write" \in Head(events).op
                  THEN /\ gpc' = "running" /\ run'["watch"] = Fresh
                       /\ triggeredBy'.runs = triggeredBy.runs + 1
                  ELSE /\ gpc' = "select" /\ UNCHANGED <<run, triggeredBy>>
       /\ (gpc' = "running" /\ gpc # "running") => Received
       /\ triggeredBy'.runs # triggeredBy.runs => Received
       /\ (gpc = "running" /\ gpc' # "running") =>
             gpc' = "select" /\ Returned(run["watch"])]_vars

C24_Witness ==
    /\ mpc = "blocked" /\ gpc = "select"
    /\ triggeredBy.runs = 2
    /\ events # <<>> /\ Head(events).op = {"Create"}

\* C26: once the initial run of a process in watch mode has failed, the watch loop
\* is never started: no goroutine, no directory registered, no event, no run of
\* the loop, and the exit status is non-zero. The loop exists only after an
\* initial run that returned nil.
C26_NoWatchAfterFailure ==
    /\ (watch /\ Returned(run["main"]) /\ run["main"].err # NoErr) =>
          /\ mpc \in {"initial", "returned", "exited"}
          /\ gpc = "none" /\ added = [func |-> 0, static |-> 0]
          /\ events = <<>> /\ triggeredBy.runs = 0 /\ run["watch"] = Idle
          /\ mpc = "exited" => exitCode # 0
    /\ (gpc # "none" \/ mpc \in {"startWatching", "walkFunc", "walkStatic", "checkErr", "blocked"}) =>
          watch /\ Succeeded(run["main"])

C26_Witness ==
    /\ watch /\ mpc = "exited" /\ exitCode = 1
    /\ retErr.text = "failed to deploy bundle"

====
